---- MODULE Spec2Model ----
(***************************************************************************)
(* QCFractal task scheduling core: TaskManager (services/service_util.py)  *)
(* over the storage layer, and FireworksAdapter (queue/fireworks_adapter)  *)
(* over a Fireworks LaunchPad.                                             *)
(***************************************************************************)
EXTENDS Integers, Sequences, FiniteSets, TLC

\* Number of distinct task specifications (hash_index values) clients submit.
NumSpecs == 2
\* Cap on the number of task records the storage holds for one hash_index.
MaxCopies == 2
\* Number of distinct task ids handed to the adapter.
NumTags == 2
\* Cap on the fw_id the LaunchPad assigns between two resets.
MaxFw == 2
\* Largest axis length of the grids explored.
MaxDim == 3
\* Largest number of seeds of one frontier expansion call.
MaxSeeds == 2
\* Largest number of points of the grids explored.
MaxPoints == 9

Hashes == 1..NumSpecs
\* Round-local keys a Service chooses for the packets of one batch.
Keys == {"k1", "k2"}
\* Service instances, each with its TaskManager.
Services == {"s1", "s2"}
Tags == 1..NumTags

VARIABLES
    storage,         \* storage_socket: task id -> task record
    required_tasks,  \* TaskManager.required_tasks of each Service: key -> task id
    queue,           \* FireworksAdapter.queue: fw_id -> (tag, parser, hooks)
    client,          \* FireworksAdapter.client: the LaunchPad
    workers,         \* whether rocket launchers other than await_results run
    service,         \* the Service records: status, error_message
    grid,            \* a grid-structured Service's exploration state
    managers,        \* the TaskManager objects: storage_socket, logger
    ret              \* the call that has just returned, until its caller takes it

tmVars == <<storage, required_tasks>>
adVars == <<queue, client, workers>>
svVars == <<service, grid, managers>>
vars == <<storage, required_tasks, queue, client, workers, service, grid,
         managers, ret>>

Range(f) == {f[k] : k \in DOMAIN f}

EmptyDict == [k \in {} |-> 0]

NoCall == [op |-> "none"]

\* The caller takes the outcome of the call; nothing else runs in between
\* (the reconciliation loop is single-threaded).
Return ==
    /\ ret # NoCall
    /\ ret' = NoCall
    /\ UNCHANGED <<tmVars, adVars, svVars>>

---------------------------------------------------------------------------
(* Storage layer and submission path                                       *)

\* A task submission packet: well-formed with a specification, not
\* accepted by TaskQueuePOSTBody, or refused by the submission path.
Packets ==
    [kind : {"ok"}, hash_index : Hashes]
        \cup {[kind |-> "malformed", hash_index |-> 0],
              [kind |-> "rejected", hash_index |-> 0]}

\* tasks: Dict[str, Any] in iteration order, keys distinct.
Batches ==
    {<<>>}
        \cup {<<<<k, p>>>> : k \in Keys, p \in Packets}
        \cup {b \in {<<<<k1, p1>>, <<k2, p2>>>> :
                        k1 \in Keys, k2 \in Keys, p1 \in Packets, p2 \in Packets} :
                b[1][1] # b[2][1]}

\* The stored tasks with this hash_index.
TasksWithHash(store, h) == {id \in DOMAIN store : store[id].hash_index = h}

\* A task as the storage creates it; its record is returned by
\* get_procedures once it is stored.
NewTask(h) == [hash_index |-> h, status |-> "WAITING", stored |-> FALSE]

\* The id the storage assigns to a new task.
NewId(store, h) == <<h, Cardinality(TasksWithHash(store, h)) + 1>>

AddTask(store, h) ==
    [id \in DOMAIN store \cup {NewId(store, h)} |->
        IF id \in DOMAIN store THEN store[id] ELSE NewTask(h)]

\* Always creates a task, whether or not the hash_index is known.
parser_submit_tasks_NoDedup(store, packet) ==
    IF packet.kind = "rejected"
    THEN [store |-> store, ids |-> <<>>, errors |-> {"rejected"}]
    ELSE [store |-> AddTask(store, packet.hash_index),
          ids |-> <<NewId(store, packet.hash_index)>>, errors |-> {}]

\* procedure_parser.submit_tasks(packet): the existing task's id when the
\* hash_index is known, a new WAITING task otherwise; errors for a packet
\* the submission path refuses.
parser_submit_tasks(store, packet) ==
    IF packet.kind = "rejected"
    THEN [store |-> store, ids |-> <<>>, errors |-> {"rejected"}]
    ELSE IF TasksWithHash(store, packet.hash_index) # {}
    THEN [store |-> store,
          ids |-> <<CHOOSE id \in TasksWithHash(store, packet.hash_index) : TRUE>>,
          errors |-> {}]
    ELSE [store |-> AddTask(store, packet.hash_index),
          ids |-> <<NewId(store, packet.hash_index)>>, errors |-> {}]

\* storage_socket.get_procedures(id=[...]): one record per distinct id that
\* has a record to return.
get_procedures(ids) ==
    {id \in ids : id \in DOMAIN storage /\ storage[id].stored}

\* storage_socket.get_queue()["data"]: every task of the queue.
get_queue == DOMAIN storage

---------------------------------------------------------------------------
(* TaskManager                                                             *)

\* The tasks the text of the exception raised by done() names: it is the
\* fixed text "All tasks did not execute successfully.".
RoundFailureMentions(data) == {}

done(rt) ==
    IF Cardinality(DOMAIN rt) = 0
    THEN [out |-> "True"]
    ELSE LET data == get_procedures(Range(rt)) IN
         IF Cardinality(data) # Cardinality(DOMAIN rt)
         THEN [out |-> "False"]
         ELSE IF "ERROR" \in {storage[x].status : x \in data}
         THEN [out |-> "KeyError",
               mentions |-> RoundFailureMentions(data),
               printed |-> {x \in get_queue : storage[x].status = "ERROR"}]
         ELSE [out |-> "True"]

\* The round is forgotten once done() has seen it resolved.
RequiredTasksAfterDone_Consumed(rt, d) ==
    IF d.out = "True" THEN EmptyDict ELSE rt

\* self.required_tasks after done(): the method assigns nothing to it.
RequiredTasksAfterDone(rt, d) == rt

Done(m) ==
    LET d == done(required_tasks[m]) IN
    /\ ret = NoCall
    /\ required_tasks' =
           [required_tasks EXCEPT ![m] = RequiredTasksAfterDone(@, d)]
    /\ ret' = [op |-> "done", m |-> m, val |-> d,
               old |-> required_tasks[m], store |-> storage]
    /\ UNCHANGED <<storage, adVars, svVars>>

\* required_tasks[key] = r["data"]["ids"][0]
SetKey(req, key, id) ==
    [k \in DOMAIN req \cup {key} |-> IF k = key THEN id ELSE req[k]]

\* The loop of submit_tasks from packet i on: the storage and the local
\* required_tasks it has built when it returns or raises.
RECURSIVE submit_loop(_, _, _, _)
submit_loop(tasks, i, store, req) ==
    IF i > Len(tasks)
    THEN [out |-> "True", store |-> store, required_tasks |-> req]
    ELSE LET key == tasks[i][1]
             packet == tasks[i][2]
         IN  IF packet.kind = "malformed"
             THEN [out |-> "ValidationError", store |-> store,
                   required_tasks |-> req]
             ELSE LET r == parser_submit_tasks(store, packet) IN
                  IF Cardinality(r.errors) # 0
                  THEN [out |-> "NameError", store |-> r.store,
                        required_tasks |-> req]
                  ELSE submit_loop(tasks, i + 1, r.store,
                                   SetKey(req, key, r.ids[1]))

\* The new batch is added to the previous round's mapping.
AssignRequiredTasks_Update(old, r) ==
    IF r.out = "True"
    THEN [k \in DOMAIN old \cup DOMAIN r.required_tasks |->
             IF k \in DOMAIN r.required_tasks THEN r.required_tasks[k] ELSE old[k]]
    ELSE old

\* The mapping is stored as it is built, also when the loop raises.
AssignRequiredTasks_Early(old, r) == r.required_tasks

\* self.required_tasks after the call: assigned once, after the loop.
AssignRequiredTasks(old, r) ==
    IF r.out = "True" THEN r.required_tasks ELSE old

TaskManager_submit_tasks(m, tasks) ==
    LET r == submit_loop(tasks, 1, storage, EmptyDict) IN
    /\ ret = NoCall
    /\ \A id \in DOMAIN r.store : id[2] <= MaxCopies
    /\ storage' = r.store
    /\ required_tasks' =
           [required_tasks EXCEPT ![m] = AssignRequiredTasks(@, r)]
    /\ ret' = [op |-> "submit_tasks", m |-> m, val |-> r.out,
               tasks |-> tasks, old |-> required_tasks[m],
               pre |-> DOMAIN storage]
    /\ UNCHANGED <<adVars, svVars>>

---------------------------------------------------------------------------
(* The queue manager and the backend, seen from the storage                *)

RecordStored(id) ==
    /\ ret = NoCall
    /\ ~storage[id].stored
    /\ storage' = [storage EXCEPT ![id].stored = TRUE]
    /\ UNCHANGED <<required_tasks, adVars, svVars, ret>>

TaskRun(id) ==
    /\ ret = NoCall
    /\ storage[id].status = "WAITING"
    /\ storage' = [storage EXCEPT ![id].status = "RUNNING"]
    /\ UNCHANGED <<required_tasks, adVars, svVars, ret>>

TaskResolve(id, s) ==
    /\ ret = NoCall
    /\ storage[id].status = "RUNNING"
    /\ storage' = [storage EXCEPT ![id].status = s, ![id].stored = TRUE]
    /\ UNCHANGED <<required_tasks, adVars, svVars, ret>>


---------------------------------------------------------------------------
(* FireworksAdapter over the LaunchPad                                     *)

Terminal == {"COMPLETED", "FIZZLED"}

\* (parser, hooks) pairs callers pass along with a task.
Callbacks == {<<"p1", "h1">>, <<"p2", "h2">>}

\* A task handed to the adapter: task["id"], task["spec"]["args"],
\* task["parser"], task["hooks"]; the input of a task is its own.
AdapterTasks ==
    {[id |-> t, args |-> <<[input |-> t]>>, parser |-> c[1], hooks |-> c[2]] :
        t \in Tags, c \in Callbacks}

\* The lists of one or two tasks a call of submit_tasks receives.
TaskLists ==
    {<<t>> : t \in AdapterTasks} \cup {<<t, u>> : t \in AdapterTasks, u \in AdapterTasks}

\* client.reset(None, ...): every firework and launch is dropped and the
\* fw_id counter starts again.
reset == [fireworks |-> EmptyDict, next_fw_id |-> 1]

\* client.add_wf(fw): the firework is stored READY under the next fw_id.
add_wf(cl, args) ==
    [fireworks |->
        [h \in DOMAIN cl.fireworks \cup {cl.next_fw_id} |->
            IF h = cl.next_fw_id THEN [state |-> "READY", args |-> args]
            ELSE cl.fireworks[h]],
     next_fw_id |-> cl.next_fw_id + 1]

\* The parser is stored where the hooks belong and the hooks where the
\* parser belongs.
QueuePut_Swapped(q, fw_id, task) ==
    [h \in DOMAIN q \cup {fw_id} |->
        IF h = fw_id
        THEN [tag |-> task.id, parser |-> task.hooks, hooks |-> task.parser]
        ELSE q[h]]

\* self.queue[fw_id] = (tag, parser, hooks)
QueuePut(q, fw_id, task) ==
    [h \in DOMAIN q \cup {fw_id} |->
        IF h = fw_id
        THEN [tag |-> task.id, parser |-> task.parser, hooks |-> task.hooks]
        ELSE q[h]]

\* The loop of submit_tasks from task i on.
RECURSIVE adapter_submit_loop(_, _, _, _, _)
adapter_submit_loop(tasks, i, cl, q, out) ==
    IF i > Len(tasks)
    THEN [client |-> cl, queue |-> q, ret |-> out]
    ELSE adapter_submit_loop(tasks, i + 1, add_wf(cl, tasks[i].args),
                             QueuePut(q, cl.next_fw_id, tasks[i]),
                             Append(out, tasks[i].id))

FireworksAdapter_submit_tasks(tasks) ==
    LET r == adapter_submit_loop(tasks, 1, client, queue, <<>>) IN
    /\ ret = NoCall
    /\ r.client.next_fw_id <= MaxFw + 1
    /\ client' = r.client
    /\ queue' = r.queue
    /\ ret' = [op |-> "adapter_submit_tasks", val |-> r.ret, queue |-> queue,
               tasks |-> tasks, first |-> client.next_fw_id]
    /\ UNCHANGED <<workers, tmVars, svVars>>

\* client.launches.find(...): the launches of the queued fw_ids whose state
\* is COMPLETED or FIZZLED.
launches_find(q, cl) ==
    {h \in DOMAIN q :
        h \in DOMAIN cl.fireworks /\ cl.fireworks[h].state \in Terminal}

\* The blob of a FIZZLED launch is returned without its success tag.
AcquiredEntry_Untagged(q, cl, h) ==
    IF cl.fireworks[h].state = "COMPLETED"
    THEN [blob |-> [fw_results |-> h],
          parser |-> q[h].parser, hooks |-> q[h].hooks]
    ELSE [blob |-> [input |-> cl.fireworks[h].args[1].input,
                    error_message |-> "_stacktrace"],
          parser |-> q[h].parser, hooks |-> q[h].hooks]

\* What acquire_complete stores in ret[key] for the launch of fw_id h.
AcquiredEntry(q, cl, h) ==
    IF cl.fireworks[h].state = "COMPLETED"
    THEN [blob |-> [fw_results |-> h],
          parser |-> q[h].parser, hooks |-> q[h].hooks]
    ELSE [blob |-> [input |-> cl.fireworks[h].args[1].input,
                    error_message |-> "_stacktrace", success |-> FALSE],
          parser |-> q[h].parser, hooks |-> q[h].hooks]

\* The dicts the loop over the cursor can build: ret[key] is written once
\* per launch found, a later launch with the same key replacing an earlier.
AcquiredDicts(q, cl) ==
    LET found == launches_find(q, cl)
        keys == {q[h].tag : h \in found}
    IN  {[k \in keys |-> AcquiredEntry(q, cl, last[k])] :
            last \in {f \in [keys -> found] : \A k \in keys : q[f[k]].tag = k}}

\* self.queue.pop(fw_id) for every launch found.
QueuePop(q, found) == [h \in DOMAIN q \ found |-> q[h]]

acquire_complete ==
    /\ ret = NoCall
    /\ \E d \in AcquiredDicts(queue, client) :
           ret' = [op |-> "acquire_complete", val |-> d, queue |-> queue]
    /\ queue' = QueuePop(queue, launches_find(queue, client))
    /\ UNCHANGED <<client, workers, tmVars, svVars>>

\* rapidfire(client): every READY firework is launched and runs to
\* COMPLETED or FIZZLED before the call returns.
rapidfire(cl, outcome) ==
    [cl EXCEPT !.fireworks =
        [h \in DOMAIN cl.fireworks |->
            IF cl.fireworks[h].state = "READY"
            THEN [cl.fireworks[h] EXCEPT !.state = outcome[h]]
            ELSE cl.fireworks[h]]]

await_results ==
    /\ ret = NoCall
    /\ ~workers
    /\ \E outcome \in [DOMAIN client.fireworks -> Terminal] :
           client' = rapidfire(client, outcome)
    /\ ret' = [op |-> "await_results", val |-> "None", queue |-> queue]
    /\ UNCHANGED <<queue, workers, tmVars, svVars>>

\* close() reports whether there was anything to release.
FireworksAdapter_close_ReportsChange(cl, q) ==
    [client |-> reset, queue |-> q,
     ret |-> IF cl = reset THEN "False" ELSE "True"]

\* close(): the LaunchPad is reset, self.queue is not touched, True is
\* returned.
FireworksAdapter_close(cl, q) ==
    [client |-> reset, queue |-> q, ret |-> "True"]

close ==
    LET r == FireworksAdapter_close(client, queue) IN
    /\ ret = NoCall
    /\ client' = r.client
    /\ queue' = r.queue
    /\ ret' = [op |-> "close", val |-> r.ret, queue |-> queue,
               client |-> client]
    /\ UNCHANGED <<workers, tmVars, svVars>>

\* A rocket launcher of the backend picks a READY firework.
WorkerLaunch(h) ==
    /\ ret = NoCall
    /\ workers
    /\ client.fireworks[h].state = "READY"
    /\ client' = [client EXCEPT !.fireworks[h].state = "RUNNING"]
    /\ UNCHANGED <<queue, workers, tmVars, svVars, ret>>

\* The firework it runs ends.
WorkerFinish(h, s) ==
    /\ ret = NoCall
    /\ workers
    /\ client.fireworks[h].state = "RUNNING"
    /\ client' = [client EXCEPT !.fireworks[h].state = s]
    /\ UNCHANGED <<queue, workers, tmVars, svVars, ret>>

---------------------------------------------------------------------------
(* Frontier expansion: expand_ndimensional_grid                            *)

\* Grids of one or two axes; an axis of length 0 has no points.
DimensionTuples ==
    {<<a>> : a \in 0..MaxDim} \cup
    {dimensions \in {<<a, b>> : a \in 0..MaxDim, b \in 0..MaxDim} :
        dimensions[1] * dimensions[2] <= MaxPoints}

\* The points of the grid: coordinate d lies in [0, dimensions[d]).
Points(dimensions) ==
    {p \in [1..Len(dimensions) -> 0..MaxDim] :
        \A d \in 1..Len(dimensions) : p[d] < dimensions[d]}

\* The orders in which iterating over a set can yield its elements.
Orders(S) ==
    {q \in [1..Cardinality(S) -> S] : \A i, j \in DOMAIN q : i # j => q[i] # q[j]}

\* The seed sets of a call, each in every order the iteration may take.
SeedSeqs(dimensions) ==
    UNION {Orders(S) : S \in {T \in SUBSET Points(dimensions) : Cardinality(T) <= MaxSeeds}}

\* The sets of resolved points passed to a call.
CompleteSets(dimensions) ==
    {{}} \cup {{p, q} : p \in Points(dimensions), q \in Points(dimensions)}

NoConnections == [compute |-> {}, connections |-> <<>>]

GridStep_OffByOne(dimensions, complete, acc, d, seed, disp) ==
    LET new_dim == seed[d] + disp
        new == [seed EXCEPT ![d] = new_dim]
    IN  IF new_dim > dimensions[d] \/ new_dim < 0 THEN acc
        ELSE IF new \in acc.compute \/ new \in complete THEN acc
        ELSE [compute |-> acc.compute \cup {new},
              connections |-> Append(acc.connections, <<seed, new>>)]

GridStep_NoComputeCheck(dimensions, complete, acc, d, seed, disp) ==
    LET new_dim == seed[d] + disp
        new == [seed EXCEPT ![d] = new_dim]
    IN  IF new_dim >= dimensions[d] \/ new_dim < 0 THEN acc
        ELSE IF new \in complete THEN acc
        ELSE [compute |-> acc.compute \cup {new},
              connections |-> Append(acc.connections, <<seed, new>>)]

GridStep_NoCompleteCheck(dimensions, complete, acc, d, seed, disp) ==
    LET new_dim == seed[d] + disp
        new == [seed EXCEPT ![d] = new_dim]
    IN  IF new_dim >= dimensions[d] \/ new_dim < 0 THEN acc
        ELSE IF new \in acc.compute THEN acc
        ELSE [compute |-> acc.compute \cup {new},
              connections |-> Append(acc.connections, <<seed, new>>)]

GridStep_OneSided(dimensions, complete, acc, d, seed, disp) ==
    LET new_dim == seed[d] + disp
        new == [seed EXCEPT ![d] = new_dim]
    IN  IF new_dim >= dimensions[d] \/ new_dim < 0 \/ disp < 0 THEN acc
        ELSE IF new \in acc.compute \/ new \in complete THEN acc
        ELSE [compute |-> acc.compute \cup {new},
              connections |-> Append(acc.connections, <<seed, new>>)]

\* The body of the innermost loop: one displacement of one seed on axis d.
GridStep(dimensions, complete, acc, d, seed, disp) ==
    LET new_dim == seed[d] + disp
        new == [seed EXCEPT ![d] = new_dim]
    IN  IF new_dim >= dimensions[d] \/ new_dim < 0 THEN acc
        ELSE IF new \in acc.compute \/ new \in complete THEN acc
        ELSE [compute |-> acc.compute \cup {new},
              connections |-> Append(acc.connections, <<seed, new>>)]

\* The three nested loops, t counting the iterations done: axes outermost,
\* then the seeds in iteration order, then the displacements -1 and +1.
RECURSIVE expand_loop(_, _, _, _, _)
expand_loop(dimensions, seeds, complete, t, acc) ==
    IF t >= Len(dimensions) * Len(seeds) * 2 THEN acc.connections
    ELSE LET d == (t \div (2 * Len(seeds))) + 1
             seed == seeds[((t \div 2) % Len(seeds)) + 1]
             disp == IF t % 2 = 0 THEN -1 ELSE 1
         IN  CHOOSE connections \in
                 {expand_loop(dimensions, seeds, complete, t + 1, next) :
                     next \in {GridStep(dimensions, complete, acc, d, seed, disp)}} :
                 TRUE

\* expand_ndimensional_grid; seeds is the set as its iteration yields it.
expand_ndimensional_grid(dimensions, seeds, complete) ==
    expand_loop(dimensions, seeds, complete, 0, NoConnections)

\* A call of expand_ndimensional_grid on seeds inside the grid.
ExpandCall(dimensions, seeds, complete) ==
    /\ ret = NoCall
    /\ ret' = [op |-> "expand", dimensions |-> dimensions, seeds |-> seeds,
               complete |-> complete,
               val |-> expand_ndimensional_grid(dimensions, seeds, complete)]
    /\ UNCHANGED <<tmVars, adVars, svVars>>

\* The neighbors of a connection list.
Neighbors(connections) == {connections[i][2] : i \in 1..Len(connections)}

\* A grid-structured Service starts with its starting points queued.
GridStatesOf(dimensions) ==
    {[dimensions |-> dimensions, compute |-> start, complete |-> {},
      times |-> [p \in Points(dimensions) |-> IF p \in start THEN 1 ELSE 0],
      exhausted |-> FALSE] :
        start \in SUBSET Points(dimensions)}

GridStates == UNION {GridStatesOf(dimensions) : dimensions \in DimensionTuples}

GridStart(g) ==
    /\ g.compute # {}
    /\ Cardinality(g.compute) <= MaxSeeds
    /\ grid = g

\* Lexicographic order of two points of a grid.
Less(p, q) ==
    \E d \in DOMAIN p : p[d] < q[d] /\ \A e \in DOMAIN p : e < d => p[e] = q[e]

RECURSIVE Ascending(_)
Ascending(S) ==
    IF S = {} THEN <<>>
    ELSE LET m == CHOOSE x \in S : \A y \in S \ {x} : Less(x, y)
         IN  <<m>> \o Ascending(S \ {m})

Reverse(q) == [i \in 1..Len(q) |-> q[Len(q) + 1 - i]]

\* The set iteration orders followed in the exploration loop.
LoopOrders(S) == {Ascending(S), Reverse(Ascending(S))}

\* One round of a grid-structured Service: the queued points are resolved
\* and become the seeds, complete takes them in, and the neighbors that
\* frontier expansion returns are queued; an empty list ends the exploration.
GridIterate ==
    /\ ~grid.exhausted
    /\ grid.compute # {}
    /\ \E seeds \in LoopOrders(grid.compute) :
         LET complete == grid.complete \cup grid.compute
             connections == expand_ndimensional_grid(grid.dimensions, seeds, complete)
         IN  grid' = [grid EXCEPT
                 !.complete = complete,
                 !.compute = Neighbors(connections),
                 !.times = [p \in DOMAIN @ |->
                               IF p \in Neighbors(connections) THEN @[p] + 1 ELSE @[p]],
                 !.exhausted = (connections = <<>>)]
    /\ UNCHANGED <<tmVars, adVars, service, managers, ret>>

---------------------------------------------------------------------------
(* The Service state machine                                               *)

States == {"WAITING", "RUNNING", "READY", "COMPLETE", "ERROR"}

Active_NotComplete(status) == status # "COMPLETE"

\* A Service that is COMPLETE or ERROR has finished.
Active(status) == status \notin {"COMPLETE", "ERROR"}

RoundResolved_UnlessRaised(d) == d.out # "KeyError"

\* The round is resolved when done() returns true.
RoundResolved(d) == d.out = "True"

OnRoundFailure_NoMessage(s, d) ==
    [s EXCEPT !.status = "ERROR"]

\* done() raised: the Service fails and keeps the text of the exception.
OnRoundFailure(s, d) ==
    [s EXCEPT !.status = "ERROR",
              !.error_message = "All tasks did not execute successfully."]

\* Service.iterate() called by the reconciliation loop on Service m, which
\* would compute the batch tasks next, or has converged.
Iterate(m, tasks, converged) ==
    LET s == service[m]
        poll == Active(s.status) /\ s.status # "WAITING"
        d == IF poll THEN done(required_tasks[m]) ELSE [out |-> "none"]
        rt == IF poll THEN RequiredTasksAfterDone(required_tasks[m], d)
              ELSE required_tasks[m]
        raised == poll /\ d.out = "KeyError"
        resolved == poll /\ ~raised /\ RoundResolved(d)
        submit == \/ Active(s.status) /\ s.status = "WAITING"
                  \/ resolved /\ ~converged
        r == submit_loop(tasks, 1, storage, EmptyDict)
        after ==
            IF submit
            THEN IF r.out = "True"
                 THEN [s EXCEPT !.status = "RUNNING", !.polled = FALSE]
                 ELSE [s EXCEPT !.status = "ERROR", !.error_message = r.out]
            ELSE IF raised THEN OnRoundFailure(s, d)
            ELSE IF resolved THEN [s EXCEPT !.status = "COMPLETE"]
            ELSE IF poll THEN [s EXCEPT !.polled = TRUE]
            ELSE s
    IN  /\ ret = NoCall
        /\ submit => \A id \in DOMAIN r.store : id[2] <= MaxCopies
        /\ ~submit => tasks = <<>>
        /\ service' = [service EXCEPT ![m] = after]
        /\ storage' = IF submit THEN r.store ELSE storage
        /\ required_tasks' =
               [required_tasks EXCEPT ![m] =
                   IF submit THEN AssignRequiredTasks(rt, r) ELSE rt]
        /\ ret' = [op |-> "iterate", m |-> m, val |-> ~Active(after.status),
                   done |-> d, submitted |-> submit,
                   service |-> service, required_tasks |-> required_tasks,
                   store |-> storage]
        /\ UNCHANGED <<adVars, grid, managers>>

---------------------------------------------------------------------------

\* No grid exploration is going on.
GridIdle == [dimensions |-> <<>>, compute |-> {}, complete |-> {},
             times |-> EmptyDict, exhausted |-> FALSE]

\* TaskManager as declared: storage_socket = None, logger = None.
NewTaskManager == [storage_socket |-> "None", logger |-> "None"]

\* The TaskManager objects before any Service constructor has run.
ManagersIdle == [m \in Services |-> NewTaskManager]

\* BaseService as constructed: status = "WAITING".
NewService == [status |-> "WAITING", error_message |-> "", polled |-> FALSE]

ServicesIdle ==
    /\ service = [m \in {"s1"} |-> NewService]
    /\ grid = GridIdle
    /\ managers = ManagersIdle

AdapterIdle ==
    /\ queue = EmptyDict
    /\ client = reset
    /\ workers = FALSE

TaskManagerInit(S) ==
    /\ storage = EmptyDict
    /\ required_tasks = [m \in S |-> EmptyDict]
    /\ ret = NoCall

Init == TaskManagerInit({"s1"}) /\ AdapterIdle /\ ServicesIdle

ServicesInit == TaskManagerInit(Services) /\ AdapterIdle /\ ServicesIdle

Next ==
    \/ Return
    \/ \E m \in DOMAIN required_tasks : Done(m)
    \/ \E m \in DOMAIN required_tasks, tasks \in Batches :
           TaskManager_submit_tasks(m, tasks)
    \/ \E id \in DOMAIN storage : RecordStored(id)
    \/ \E id \in DOMAIN storage : TaskRun(id)
    \/ \E id \in DOMAIN storage, s \in {"COMPLETE", "ERROR"} : TaskResolve(id, s)

\* FireworksAdapter.__init__: an empty queue over a LaunchPad just reset,
\* in a deployment with or without rocket launchers of its own.
AdapterInit ==
    /\ queue = EmptyDict
    /\ client = reset
    /\ workers \in BOOLEAN
    /\ TaskManagerInit({"s1"})
    /\ ServicesIdle

AdapterNext ==
    \/ Return
    \/ \E tasks \in TaskLists : FireworksAdapter_submit_tasks(tasks)
    \/ acquire_complete
    \/ await_results
    \/ close
    \/ \E h \in DOMAIN client.fireworks : WorkerLaunch(h)
    \/ \E h \in DOMAIN client.fireworks, s \in Terminal : WorkerFinish(h, s)

GridInit ==
    /\ TaskManagerInit({"s1"})
    /\ AdapterIdle
    /\ ServicesIdle

\* Calls of expand_ndimensional_grid on every grid, seed set and complete set.
Expand ==
    /\ ret = NoCall
    /\ \E dimensions \in DimensionTuples :
         \E seeds \in SeedSeqs(dimensions), complete \in CompleteSets(dimensions) :
             ExpandCall(dimensions, seeds, complete)

GridNext ==
    \/ Return
    \/ Expand

GridLoopInit ==
    /\ TaskManagerInit({"s1"})
    /\ AdapterIdle
    /\ service = [m \in {"s1"} |-> NewService]
    /\ managers = ManagersIdle
    /\ \E g \in GridStates : GridStart(g)

GridLoopNext == GridIterate

\* One Service and its TaskManager over the storage.
Spec == Init /\ [][Next]_vars

\* Batches of well-formed packets that the submission path accepts.
OkBatches ==
    {b \in Batches : \A i \in 1..Len(b) : b[i][2].kind = "ok"}

\* Two Services submitting rounds of accepted packets while the queue
\* manager runs the tasks.
ServicesNext ==
    \/ Return
    \/ \E m \in DOMAIN required_tasks, tasks \in OkBatches :
           TaskManager_submit_tasks(m, tasks)
    \/ \E id \in DOMAIN storage : TaskRun(id)
    \/ \E id \in DOMAIN storage, s \in {"COMPLETE", "ERROR"} : TaskResolve(id, s)

\* Two Services over the same storage.
ServicesSpec == ServicesInit /\ [][ServicesNext]_vars

\* The adapter, the LaunchPad and its rocket launchers.
AdapterSpec == AdapterInit /\ [][AdapterNext]_vars

\* The Services S as constructed, over an empty storage.
ServiceInit(S) ==
    /\ TaskManagerInit(S)
    /\ AdapterIdle
    /\ service = [m \in S |-> NewService]
    /\ grid = GridIdle
    /\ managers = ManagersIdle

\* The reconciliation loop iterating a Service while the queue manager
\* runs its tasks.
ServiceNext ==
    \/ Return
    \/ \E m \in DOMAIN service, tasks \in Batches, converged \in BOOLEAN :
           Iterate(m, tasks, converged)
    \/ \E m \in DOMAIN service : Done(m)
    \/ \E id \in DOMAIN storage : RecordStored(id)
    \/ \E id \in DOMAIN storage : TaskRun(id)
    \/ \E id \in DOMAIN storage, s \in {"COMPLETE", "ERROR"} : TaskResolve(id, s)

\* One Service driven by the reconciliation loop.
ServiceSpec == ServiceInit({"s1"}) /\ [][ServiceNext]_vars

\* Rounds of one accepted packet.
SingleBatches == {b \in OkBatches : Len(b) <= 1 /\ \A i \in DOMAIN b : b[i][1] = "k1"}

\* The passes of the reconciliation loop over two Services.
LoopNext ==
    \/ Return
    \/ \E m \in DOMAIN service, tasks \in SingleBatches, converged \in BOOLEAN :
           Iterate(m, tasks, converged)
    \/ \E id \in DOMAIN storage : TaskRun(id)
    \/ \E id \in DOMAIN storage, s \in {"COMPLETE", "ERROR"} : TaskResolve(id, s)

\* Two Services driven by the reconciliation loop.
LoopSpec == ServiceInit(Services) /\ [][LoopNext]_vars

\* The failure is recorded but the Service is left to be iterated.
initialize_from_api_Waiting(valid) ==
    IF valid THEN NewService
    ELSE [NewService EXCEPT !.error_message = "Service Build"]

\* Construction of a Service from the API: a validation failure of its
\* parameters puts it in ERROR with a "Service Build" message.
initialize_from_api(valid) ==
    IF valid THEN NewService
    ELSE [NewService EXCEPT !.status = "ERROR",
                            !.error_message = "Service Build"]

\* A Service is submitted; valid tells whether its parameters pass the
\* validation done at construction.
ServiceBuild(m, valid) ==
    /\ ret = NoCall
    /\ m \notin DOMAIN service
    /\ service' = [n \in DOMAIN service \cup {m} |->
                      IF n = m THEN initialize_from_api(valid) ELSE service[n]]
    /\ ret' = [op |-> "build", m |-> m, valid |-> valid]
    /\ UNCHANGED <<tmVars, adVars, grid, managers>>

\* No Service has been submitted yet.
BuildInit ==
    /\ TaskManagerInit({"s1"})
    /\ AdapterIdle
    /\ service = EmptyDict
    /\ grid = GridIdle
    /\ managers = ManagersIdle

BuildNext ==
    \/ ServiceNext
    \/ \E m \in DOMAIN required_tasks, valid \in BOOLEAN : ServiceBuild(m, valid)

\* A Service submitted, built and then driven by the reconciliation loop.
BuildSpec == BuildInit /\ [][BuildNext]_vars

\* The storage socket and logger a Service is constructed with.
Handles == {<<"socket1", "logger1">>, <<"socket2", "logger2">>}

\* Every Service holds the TaskManager() object of the class declaration.
task_manager_Shared(m) == "s1"

\* The TaskManager object Service m holds when it was constructed without
\* an explicit task_manager: pydantic gives each instance its own copy of
\* the declared default.
task_manager(m) == m

\* BaseService.__init__: the fields are set, then the logger and the
\* storage socket are assigned to the Service's task_manager.
BaseService_init(m, storage_socket, logger) ==
    /\ ret = NoCall
    /\ m \notin DOMAIN service
    /\ service' = [n \in DOMAIN service \cup {m} |->
                      IF n = m THEN NewService ELSE service[n]]
    /\ managers' = [managers EXCEPT ![task_manager(m)] =
                       [storage_socket |-> storage_socket, logger |-> logger]]
    /\ ret' = [op |-> "init", m |-> m]
    /\ UNCHANGED <<tmVars, adVars, grid>>

OwnerInit ==
    /\ TaskManagerInit(Services)
    /\ AdapterIdle
    /\ service = EmptyDict
    /\ grid = GridIdle
    /\ managers = ManagersIdle

\* Services are constructed and submit rounds through their task_manager.
OwnerNext ==
    \/ Return
    \/ \E m \in Services, h \in Handles : BaseService_init(m, h[1], h[2])
    \/ \E m \in DOMAIN service, tasks \in SingleBatches :
           TaskManager_submit_tasks(task_manager(m), tasks)

\* Two Services and the TaskManager each of them holds.
OwnerSpec == OwnerInit /\ [][OwnerNext]_vars

\* The pure frontier expansion function on bounded inputs.
GridSpec == GridInit /\ [][GridNext]_vars

\* The exploration loop of a grid-structured Service; a Service that is
\* iterated keeps being iterated until it reports finished.
GridLoopSpec == GridLoopInit /\ [][GridLoopNext]_vars /\ WF_vars(GridIterate)

---------------------------------------------------------------------------
(* Properties of TaskManager.done()                                        *)

DoneReturned == ret.op = "done"

\* The required task ids of the manager whose call has just returned.
Required == Range(required_tasks[ret.m])

IsComplete(id) ==
    id \in DOMAIN storage /\ storage[id].stored /\ storage[id].status = "COMPLETE"

IsError(id) == id \in DOMAIN storage /\ storage[id].status = "ERROR"

\* C1: whenever done() returns true for a non-empty required_tasks, every
\* required task id has a stored record whose status is COMPLETE.
C1_DoneOnlyWhenAllComplete ==
    (DoneReturned /\ ret.val.out = "True" /\ Required # {})
        => \A id \in Required : IsComplete(id)

\* C2: once every required task is COMPLETE in storage, done() returns
\* true, for every required_tasks mapping submit_tasks can produce.
C2_DoneWhenAllComplete ==
    (DoneReturned /\ Required # {} /\ \A id \in Required : IsComplete(id))
        => ret.val.out = "True"

\* C3: done() raises as soon as any required task is ERROR, whatever the
\* state of the other required tasks.
C3_DoneRaisesOnError ==
    (DoneReturned /\ \E id \in Required : IsError(id))
        => ret.val.out = "KeyError"

\* C4: the failure done() raises names exactly the required tasks of the
\* round that are in ERROR.
C4_FailureNamesErredTasks ==
    (DoneReturned /\ ret.val.out = "KeyError")
        => ret.val.mentions = {id \in Required : IsError(id)}

---------------------------------------------------------------------------
(* Properties of TaskManager.submit_tasks                                  *)

SubmitReturned == ret.op = "submit_tasks"

BatchKeys(tasks) == {tasks[i][1] : i \in 1..Len(tasks)}

HashesOf(ids) == {storage[id].hash_index : id \in ids}

\* C5: a successful submit_tasks leaves required_tasks with exactly the
\* keys of the new batch, each mapped to the id of the task that holds the
\* packet's specification.
C5_SubmitReplacesRequiredTasks ==
    (SubmitReturned /\ ret.val = "True")
        => LET rt == required_tasks[ret.m] IN
           /\ DOMAIN rt = BatchKeys(ret.tasks)
           /\ \A i \in 1..Len(ret.tasks) :
                  /\ rt[ret.tasks[i][1]] \in DOMAIN storage
                  /\ storage[rt[ret.tasks[i][1]]].hash_index
                         = ret.tasks[i][2].hash_index

\* A successful round that replaced a previous round with another key.
C5_Witness ==
    /\ SubmitReturned /\ ret.val = "True"
    /\ required_tasks[ret.m] # EmptyDict
    /\ \E k \in DOMAIN ret.old : k \notin DOMAIN required_tasks[ret.m]

\* C6: a batch with a malformed or refused packet makes submit_tasks raise,
\* and required_tasks is what it was before the call.
C6_FailedSubmitKeepsRequiredTasks ==
    (SubmitReturned /\ \E i \in 1..Len(ret.tasks) : ret.tasks[i][2].kind # "ok")
        => /\ ret.val \in {"ValidationError", "NameError"}
           /\ required_tasks[ret.m] = ret.old

\* A batch that failed on its second packet, over a previous round that
\* differs from what the first packet had built.
C6_Witness ==
    /\ SubmitReturned /\ ret.val = "NameError"
    /\ Len(ret.tasks) = 2 /\ ret.tasks[1][2].kind = "ok"
    /\ ret.old # EmptyDict
    /\ ret.tasks[1][1] \notin DOMAIN ret.old

\* C7: a specification whose hash_index is stored gets the stored task's
\* id and no new task, so no two tasks share a hash_index and at most one
\* task per specification is ever run, whichever Service submits it.
C7_TaskDeduplication ==
    /\ \A a \in DOMAIN storage, b \in DOMAIN storage :
           storage[a].hash_index = storage[b].hash_index => a = b
    /\ \A h \in Hashes :
           Cardinality({id \in TasksWithHash(storage, h) :
                           storage[id].status # "WAITING"}) <= 1
    /\ (SubmitReturned /\ ret.val = "True") =>
           /\ \A i \in 1..Len(ret.tasks) :
                  ret.tasks[i][2].hash_index \in HashesOf(ret.pre)
                      => required_tasks[ret.m][ret.tasks[i][1]] \in ret.pre
           /\ HashesOf(DOMAIN storage \ ret.pre) =
                  {ret.tasks[i][2].hash_index : i \in 1..Len(ret.tasks)}
                      \ HashesOf(ret.pre)
           /\ Cardinality(DOMAIN storage \ ret.pre) =
                  Cardinality(HashesOf(DOMAIN storage \ ret.pre))

\* Two Services hold the same task, which the second got by resubmitting
\* its specification after the task was run.
C7_Witness ==
    /\ SubmitReturned /\ ret.val = "True" /\ ret.m = "s2"
    /\ DOMAIN storage = ret.pre
    /\ \E id \in Range(required_tasks["s1"]) \cap Range(required_tasks["s2"]) :
           storage[id].status = "COMPLETE"

---------------------------------------------------------------------------
(* Properties of FireworksAdapter                                          *)

JobTerminal(h) ==
    h \in DOMAIN client.fireworks /\ client.fireworks[h].state \in Terminal

\* C8: acquire_complete removes exactly the handles whose job is terminal,
\* leaves the others as they were, and returns one entry per removed job,
\* the entry of that job.
C8_AcquireRemovesExactlyTerminal ==
    ret.op = "acquire_complete" =>
        LET removed == DOMAIN ret.queue \ DOMAIN queue IN
        /\ removed = {h \in DOMAIN ret.queue : JobTerminal(h)}
        /\ \A h \in DOMAIN queue : h \in DOMAIN ret.queue /\ queue[h] = ret.queue[h]
        /\ Cardinality(DOMAIN ret.val) = Cardinality(removed)
        /\ \A h \in removed :
               /\ ret.queue[h].tag \in DOMAIN ret.val
               /\ ret.val[ret.queue[h].tag] = AcquiredEntry(ret.queue, client, h)

\* C9: the adapter's queue holds at most one entry, and the backend at
\* most one queued job, per task id.
C9_OneQueueEntryPerTaskId ==
    \A a \in DOMAIN queue, b \in DOMAIN queue :
        queue[a].tag = queue[b].tag => a = b

\* C10: when await_results() has returned, every job queued at the call is
\* in a terminal state, so that the next acquire_complete() empties the queue.
C10_AwaitDrainsQueue ==
    ret.op = "await_results" => \A h \in DOMAIN queue : JobTerminal(h)

AcquireReturned == ret.op = "acquire_complete"

\* The handles the call that has just returned took out of the queue.
Removed == DOMAIN ret.queue \ DOMAIN queue

\* The removed handles queued under task id k.
RemovedFor(k) == {h \in Removed : ret.queue[h].tag = k}

C12_CallbacksUnchanged ==
    /\ ret.op = "adapter_submit_tasks" =>
           /\ \A i \in 1..Len(ret.tasks) :
                  LET h == ret.first + i - 1 IN
                  /\ h \in DOMAIN queue
                  /\ queue[h] = [tag |-> ret.tasks[i].id,
                                 parser |-> ret.tasks[i].parser,
                                 hooks |-> ret.tasks[i].hooks]
           /\ \A h \in DOMAIN ret.queue :
                  (h < ret.first \/ h >= ret.first + Len(ret.tasks))
                      => h \in DOMAIN queue /\ queue[h] = ret.queue[h]
    /\ AcquireReturned =>
           /\ \A k \in DOMAIN ret.val : \E h \in RemovedFor(k) :
                  /\ ret.val[k].parser = ret.queue[h].parser
                  /\ ret.val[k].hooks = ret.queue[h].hooks
                  /\ IF client.fireworks[h].state = "COMPLETED"
                     THEN ret.val[k].blob = [fw_results |-> h]
                     ELSE /\ "input" \in DOMAIN ret.val[k].blob
                          /\ ret.val[k].blob.input = k
           /\ \A h \in DOMAIN queue : queue[h] = ret.queue[h]

\* Two tasks with different parsers and hooks were queued, and one call
\* returned both.
C12_Witness ==
    /\ AcquireReturned
    /\ \E k1 \in DOMAIN ret.val, k2 \in DOMAIN ret.val :
           k1 # k2 /\ ret.val[k1].parser # ret.val[k2].parser

---------------------------------------------------------------------------
(* Properties of frontier expansion                                        *)

ExpandReturned == ret.op = "expand"

\* p is s moved by exactly one step on axis d and on no other axis.
StepOnAxis(s, p, d) ==
    /\ p[d] = s[d] + 1 \/ p[d] = s[d] - 1
    /\ \A e \in DOMAIN s \ {d} : p[e] = s[e]

\* The points one step of +-1 on one axis away from a seed, inside
\* [0, dimensions[d]) on that axis and not in complete.
Frontier(dimensions, seeds, complete) ==
    {p \in [DOMAIN dimensions -> -1..MaxDim] :
        /\ p \notin complete
        /\ \E s \in seeds, d \in DOMAIN dimensions :
              /\ StepOnAxis(s, p, d)
              /\ 0 <= p[d]
              /\ p[d] < dimensions[d]}

\* C13: for every grid, every set of seeds inside it and every set
\* complete, the neighbors that expand_ndimensional_grid emits are exactly
\* the points one step of +-1 on exactly one axis away from some seed that
\* lie in [0, dimensions[d]) on that axis and are not in complete; on
\* ((3,3), {(1,1)}, {}) it returns the four pairs from (1,1) to (0,1),
\* (2,1), (1,0), (1,2), and on ((2,), {(0,)}, {}) only ((0,), (1,)).
C13_FrontierExact ==
    ExpandReturned =>
        /\ Neighbors(ret.val) =
               Frontier(ret.dimensions, Range(ret.seeds), ret.complete)
        /\ (ret.dimensions = <<3, 3>> /\ ret.seeds = << <<1, 1>> >> /\ ret.complete = {})
               => /\ Len(ret.val) = 4
                  /\ Range(ret.val) = {<< <<1, 1>>, <<0, 1>> >>, << <<1, 1>>, <<2, 1>> >>,
                                       << <<1, 1>>, <<1, 0>> >>, << <<1, 1>>, <<1, 2>> >>}
        /\ (ret.dimensions = <<2>> /\ ret.seeds = << <<0>> >> /\ ret.complete = {})
               => ret.val = << << <<0>>, <<1>> >> >>

\* A call that clips a neighbor at each end of an axis and leaves out a
\* resolved point.
C13_Witness ==
    /\ ExpandReturned
    /\ ret.dimensions = <<3, 3>>
    /\ Range(ret.seeds) = {<<0, 1>>, <<2, 1>>}
    /\ ret.complete = {<<1, 1>>}
    /\ Neighbors(ret.val) = {<<0, 0>>, <<0, 2>>, <<2, 0>>, <<2, 2>>}

\* C14: within one call no neighbor is emitted twice, and in each emitted
\* pair the origin is one of the seeds and the neighbor differs from it by
\* exactly one step on exactly one axis.
C14_NoDuplicateNeighbor ==
    ExpandReturned =>
        /\ \A i, j \in DOMAIN ret.val : i # j => ret.val[i][2] # ret.val[j][2]
        /\ \A i \in DOMAIN ret.val :
              /\ ret.val[i][1] \in Range(ret.seeds)
              /\ \E d \in DOMAIN ret.dimensions :
                     StepOnAxis(ret.val[i][1], ret.val[i][2], d)

\* A neighbor within one step of two seeds has been emitted.
C14_Witness ==
    /\ ExpandReturned
    /\ \E i \in DOMAIN ret.val, s \in Range(ret.seeds), d \in DOMAIN ret.dimensions :
          /\ s # ret.val[i][1]
          /\ StepOnAxis(s, ret.val[i][2], d)

\* C15: in the exploration loop the queued set and complete are disjoint in
\* every reachable state, and no grid point is queued in more than one round.
C15_QueuedOnce ==
    /\ grid.compute \cap grid.complete = {}
    /\ \A p \in DOMAIN grid.times : grid.times[p] <= 1

\* A later round: resolved points, and new neighbors of theirs queued.
C15_Witness ==
    /\ grid.complete # {}
    /\ grid.compute # {}
    /\ \E p \in grid.compute, s \in grid.complete, d \in DOMAIN grid.dimensions :
          StepOnAxis(s, p, d)

\* C16: from every non-empty starting seed set inside a finite grid the
\* exploration reaches, after finitely many rounds, a call that returns an
\* empty connection list, and then every point of the grid is in complete.
C16_ExplorationTerminates ==
    /\ <>grid.exhausted
    /\ [](grid.exhausted => grid.complete = Points(grid.dimensions))

\* An exploration of several rounds that has ended.
C16_Witness ==
    /\ grid.exhausted
    /\ grid.complete = Points(grid.dimensions)
    /\ \A p \in grid.complete : grid.times[p] = 1
    /\ Cardinality(grid.complete) > MaxDim

---------------------------------------------------------------------------
(* Properties of the Service state machine                                 *)

IterateReturned == ret.op = "iterate"

C19_RoundFailureIsolated ==
    /\ (IterateReturned /\ ret.done.out = "KeyError") =>
           /\ service[ret.m].status = "ERROR"
           /\ service[ret.m].error_message = "All tasks did not execute successfully."
           /\ ret.val = TRUE
           /\ \A n \in DOMAIN service \ {ret.m} :
                  /\ service[n] = ret.service[n]
                  /\ required_tasks[n] = ret.required_tasks[n]
    /\ ret = NoCall => \A n \in DOMAIN service : ENABLED Iterate(n, <<>>, TRUE)

\* A Service reaches COMPLETE in a pass made after the other one failed.
C19_Witness ==
    /\ IterateReturned
    /\ ret.service[ret.m].status = "RUNNING"
    /\ service[ret.m].status = "COMPLETE"
    /\ \E n \in DOMAIN service \ {ret.m} :
          /\ ret.service[n].status = "ERROR"
          /\ ret.service[n].error_message = "All tasks did not execute successfully."

\* C20: the status of a Service is always one of WAITING, RUNNING, READY,
\* COMPLETE, ERROR, and once it is COMPLETE or ERROR no iterate() call and
\* no task resolution changes it or submits a new round.
C20_TerminalStates ==
    /\ [](\A m \in DOMAIN service : service[m].status \in States)
    /\ [][\A m \in DOMAIN service :
            service[m].status \in {"COMPLETE", "ERROR"} =>
                /\ service'[m].status = service[m].status
                /\ required_tasks'[m] = required_tasks[m]]_vars

\* iterate() has been called on a Service that a round failure had put
\* in ERROR.
C20_Witness ==
    /\ IterateReturned
    /\ ret.service[ret.m].status = "ERROR"
    /\ ret.service[ret.m].error_message = "All tasks did not execute successfully."
    /\ ret.val = TRUE
    /\ service = ret.service

---------------------------------------------------------------------------
(* Properties of Service construction                                      *)

BuildFailed(m) == service[m].error_message = "Service Build"

---------------------------------------------------------------------------
(* Properties of FireworksAdapter.close()                                  *)

CloseReturned == ret.op = "close"

\* C22: close() is idempotent: a second close() in a row returns true as
\* the first did and leaves the LaunchPad and the adapter as the first
\* left them.
C22_CloseIdempotent ==
    CloseReturned =>
        LET again == FireworksAdapter_close(client, queue) IN
        /\ ret.val = "True"
        /\ again.ret = "True"
        /\ again.client = client
        /\ again.queue = queue

\* A second close() in a row: the LaunchPad was already reset, under a
\* queue that still has entries.
C22_Witness ==
    /\ CloseReturned
    /\ ret.client = reset
    /\ ret.queue # EmptyDict
    /\ queue = ret.queue

---------------------------------------------------------------------------
(* Properties of TaskManager ownership                                     *)

\* Service m's manager submits a round, or Service m is constructed.
ActsOn(m) ==
    /\ ret = NoCall
    /\ \/ ret'.op = "submit_tasks" /\ ret'.m = task_manager(m)
       \/ ret'.op = "init" /\ ret'.m = m

---------------------------------------------------------------------------
(* Properties of the adapter's queue across close()                        *)

\* C24: every handle held in the adapter's queue refers to a job that
\* still exists in the backend; in particular no entry survives a close()
\* that reset the backend.
C24_QueueHandlesExist ==
    /\ \A h \in DOMAIN queue : h \in DOMAIN client.fireworks
    /\ CloseReturned => queue = EmptyDict

---------------------------------------------------------------------------
(* Properties of a failed TaskManager.submit_tasks                         *)

\* C25: when submit_tasks fails on a packet of a batch, none of the
\* packets before it in the batch is left created or queued in the storage.
C25_FailedSubmitLeavesNoTask ==
    (SubmitReturned /\ ret.val # "True") => DOMAIN storage = ret.pre

====
